---- MODULE Spec2Model ----
(***************************************************************************)
(* ProtobufToJsonMiddleware of fastapi_better_mixed_server_asgi.py: an     *)
(* ASGI middleware that lets a JSON-only handler serve protobuf clients.   *)
(*                                                                         *)
(* Byte strings are sequences of tokens (strings); the length of a byte    *)
(* string is its number of tokens.  __call__ runs once per request, as a  *)
(* coroutine; coroutines interleave at awaits only.  The code between the  *)
(* end of the drain and the call of the downstream app has no await: the   *)
(* model runs it as one step after the drain's last turn, and new_send's   *)
(* two sends as one step.                                                  *)
(***************************************************************************)
EXTENDS Integers, Sequences, FiniteSets, TLC

\* ------------------------------------------------------------------ bounds
\* Requests the one middleware instance serves (SpecConc runs them all).
NumReqs == 2
\* http.request messages the transport delivers per request.
MaxChunks == 2
\* http.response.body events the downstream app emits per response.
MaxRespChunks == 2
\* Calls of new_receive the downstream app makes per request.
MaxPulls == 2

Reqs == 1..NumReqs

\* ------------------------------------------------------------ byte strings
Digits == <<"0", "1", "2", "3", "4", "5", "6", "7", "8", "9">>

\* str(n) for n >= 0: the decimal digits of n.
RECURSIVE Str(_)
Str(n) == IF n < 10 THEN Digits[n + 1] ELSE Str(n \div 10) \o Digits[(n % 10) + 1]

NumTokens == {Digits[i] : i \in DOMAIN Digits}

\* int(tok) for a one-digit token.
Num(tok) == CHOOSE i \in 0..9 : Digits[i + 1] = tok

\* bytes.lower() on the header names in use.
Lower(name) ==
    CASE name = "Content-Type" -> "content-type"
      [] name = "Content-Length" -> "content-length"
      [] OTHER -> name

\* ------------------------------------------------------------ Message codec
\* Classroom(profile, students) and ClassStats(numstudents, grade); a Student
\* is carried by its avg_grade.  Wire format: a field that holds its default
\* is left out, every other field is a tag token followed by a value token.
DefaultClassroom == [profile |-> "", students |-> <<>>]
DefaultClassStats == [numstudents |-> 0, grade |-> 0]

\* Classroom.SerializeToString (the client's side of the wire).
RECURSIVE SerializeStudents(_)
SerializeStudents(ss) ==
    IF ss = <<>> THEN <<>>
    ELSE <<"#2", Str(Head(ss))>> \o SerializeStudents(Tail(ss))

SerializeClassroom(m) ==
    (IF m.profile = "" THEN <<>> ELSE <<"#1", m.profile>>) \o SerializeStudents(m.students)

\* Classroom.FromString: fields are read in order; a repeated scalar field keeps
\* the last value; a tag with no value (truncation), an unknown tag or a value of
\* the wrong kind fails.
RECURSIVE ParseClassroom(_, _)
ParseClassroom(b, acc) ==
    IF b = <<>> THEN [ok |-> TRUE, msg |-> acc]
    ELSE IF Len(b) < 2 THEN [ok |-> FALSE, msg |-> acc]
    ELSE IF b[1] = "#1" /\ b[2] \notin NumTokens
         THEN ParseClassroom(SubSeq(b, 3, Len(b)), [acc EXCEPT !.profile = b[2]])
    ELSE IF b[1] = "#2" /\ b[2] \in NumTokens
         THEN ParseClassroom(SubSeq(b, 3, Len(b)),
                             [acc EXCEPT !.students = Append(@, Num(b[2]))])
    ELSE [ok |-> FALSE, msg |-> acc]

FromString(cls, b) ==
    IF cls = "Classroom" THEN ParseClassroom(b, DefaultClassroom)
    ELSE [ok |-> FALSE, msg |-> DefaultClassroom]

\* json.dumps(proto_object.to_dict(Casing.SNAKE)): defaults are left out.
Quote(s) == "\"" \o s \o "\""

RECURSIVE JsonList(_)
JsonList(ss) ==
    IF ss = <<>> THEN <<>>
    ELSE IF Len(ss) = 1 THEN <<Str(ss[1])>>
    ELSE <<Str(ss[1]), ",">> \o JsonList(Tail(ss))

JsonDumpsClassroom(m) ==
    LET p == IF m.profile = "" THEN <<>> ELSE <<"profile:", Quote(m.profile)>>
        s == IF m.students = <<>> THEN <<>>
             ELSE <<"students:", "[">> \o JsonList(m.students) \o <<"]">>
        sep == IF p # <<>> /\ s # <<>> THEN <<",">> ELSE <<>>
    IN  <<"{">> \o p \o sep \o s \o <<"}">>

\* Downstream's reading of the JSON request body into a Classroom: an absent
\* member is the field's default.
Profiles == {"Math"}

Unquote(tok) ==
    IF \E p \in Profiles : Quote(p) = tok
    THEN CHOOSE p \in Profiles : Quote(p) = tok
    ELSE ""

JsonLoadsClassroom(b) ==
    LET at(key) == {i \in DOMAIN b : b[i] = key}
        first(S) == CHOOSE i \in S : \A j \in S : i <= j
        p == at("profile:")
        s == at("students:")
        close == {i \in at("]") : s # {} /\ i > first(s)}
        items == IF s = {} \/ close = {} THEN <<>>
                 ELSE SelectSeq(SubSeq(b, first(s) + 2, first(close) - 1),
                                LAMBDA tok : tok \in NumTokens)
    IN  [profile |-> IF p = {} THEN "" ELSE Unquote(b[first(p) + 1]),
         students |-> [i \in DOMAIN items |-> Num(items[i])]]

\* json.loads of a flat object: {"ok", "dict"}, dict a sequence of <<key, value>>.
KeyTokens == {"numstudents:", "grade:", "surname:"}

RECURSIVE ParseMembers(_, _)
ParseMembers(b, acc) ==
    IF Len(b) < 2 \/ b[1] \notin KeyTokens \/ b[2] \notin NumTokens
    THEN [ok |-> FALSE, dict |-> <<>>]
    ELSE IF Len(b) = 2 THEN [ok |-> TRUE, dict |-> Append(acc, <<b[1], Num(b[2])>>)]
    ELSE IF b[3] # "," THEN [ok |-> FALSE, dict |-> <<>>]
    ELSE ParseMembers(SubSeq(b, 4, Len(b)), Append(acc, <<b[1], Num(b[2])>>))

JsonLoads(b) ==
    IF Len(b) < 2 \/ b[1] # "{" \/ b[Len(b)] # "}" THEN [ok |-> FALSE, dict |-> <<>>]
    ELSE IF Len(b) = 2 THEN [ok |-> TRUE, dict |-> <<>>]
    ELSE ParseMembers(SubSeq(b, 2, Len(b) - 1), <<>>)

\* dict lookup with a default; of repeated keys the last wins.
DictGet(d, key, default) ==
    LET idx == {i \in DOMAIN d : d[i][1] = key}
    IN  IF idx = {} THEN default ELSE d[CHOOSE i \in idx : \A j \in idx : j <= i][2]

\* ClassStats(**response_data): an unknown keyword is a TypeError.
Construct(cls, d) ==
    IF cls = "ClassStats" /\ \A i \in DOMAIN d : d[i][1] \in {"numstudents:", "grade:"}
    THEN [ok |-> TRUE,
          msg |-> [numstudents |-> DictGet(d, "numstudents:", 0),
                   grade |-> DictGet(d, "grade:", 0)]]
    ELSE [ok |-> FALSE, msg |-> DefaultClassStats]

\* ClassStats.SerializeToString.
SerializeToString(m) ==
    (IF m.numstudents = 0 THEN <<>> ELSE <<"#1", Str(m.numstudents)>>)
    \o (IF m.grade = 0 THEN <<>> ELSE <<"#2", Str(m.grade)>>)

\* ------------------------------------------------------------ ASGI messages
BinaryType == "application/x-protobuf"
JsonType == "application/json"

ReqMsg(b, more) == [type |-> "http.request", body |-> b, more_body |-> more]
Disconnect == [type |-> "http.disconnect"]
RespStart(status, headers) ==
    [type |-> "http.response.start", status |-> status, headers |-> headers]
RespBody(b, more) == [type |-> "http.response.body", body |-> b, more_body |-> more]

\* message.get(key, default)
Get(m, key, default) == IF key \in DOMAIN m THEN m[key] ELSE default

\* dict(scope["headers"]).get(name): the last entry of that exact name, or None.
None == "None"
HeaderGet(headers, name) ==
    LET idx == {i \in DOMAIN headers : headers[i][1] = name}
    IN  IF idx = {} THEN None ELSE headers[CHOOSE i \in idx : \A j \in idx : j <= i][2]

\* ------------------------------------------------------------ routing table
\* app.routes, in registration order: FastAPI's own documentation route (a plain
\* Route, not an APIRoute), the /classroom handler, and two handlers whose
\* signatures lack a return annotation or a message-typed parameter.
Routes == <<
    [api |-> FALSE, method |-> "GET", path |-> "/docs", params |-> <<>>, return |-> None],
    [api |-> TRUE, method |-> "POST", path |-> "/classroom", params |-> <<"Classroom">>,
     return |-> "ClassStats"],
    [api |-> TRUE, method |-> "POST", path |-> "/noreturn", params |-> <<"Classroom">>,
     return |-> None],
    [api |-> TRUE, method |-> "POST", path |-> "/noinput", params |-> <<"int">>,
     return |-> "ClassStats"],
    [api |-> TRUE, method |-> "PUT", path |-> "/classroom", params |-> <<"ClassStats">>,
     return |-> "Classroom"] >>

\* hasattr(hint, "FromString")
HasFromString(hint) == hint \in {"Classroom", "ClassStats"}

\* FindRoute without the isinstance(route, APIRoute) test.
FindRoute_anyRoute(path) ==
    LET idx == {i \in DOMAIN Routes : Routes[i].path = path}
    IN  IF idx = {} THEN 0 ELSE CHOOSE i \in idx : \A j \in idx : i <= j

\* for route in app.routes: the first APIRoute whose path equals the request's
\* (0: the loop's else branch).
FindRoute(path) ==
    LET idx == {i \in DOMAIN Routes : Routes[i].api /\ Routes[i].path = path}
    IN  IF idx = {} THEN 0 ELSE CHOOSE i \in idx : \A j \in idx : i <= j

\* next((hint for hint in type_hints.values() if hasattr(hint, "FromString")), None)
InputClass(params) ==
    LET idx == {i \in DOMAIN params : HasFromString(params[i])}
    IN  IF idx = {} THEN None ELSE params[CHOOSE i \in idx : \A j \in idx : i <= j]

\* ------------------------------------------------------------------ inputs
H_none == <<>>
H_accept == << <<"accept", "*/*">> >>
H_json == << <<"content-type", JsonType>>, <<"content-length", "4">> >>
H_bin == << <<"content-type", BinaryType>> >>
H_bin2 == << <<"accept", "*/*">>, <<"content-type", BinaryType>>, <<"content-length", "6">> >>
\* Two content-type entries, as a client that repeats the header sends them.
H_dup == << <<"content-type", BinaryType>>, <<"content-type", JsonType>> >>

HttpScope(path, headers) ==
    [type |-> "http", method |-> "POST", path |-> path, headers |-> headers]

\* A binary request for the handler that PUT binds to /classroom.
PutScope == [HttpScope("/classroom", H_bin) EXCEPT !.method = "PUT"]

Scopes ==
    {HttpScope("/classroom", h) : h \in {H_none, H_accept, H_json, H_bin, H_bin2, H_dup}}
    \cup {HttpScope(p, H_bin) : p \in {"/nowhere", "/docs", "/noreturn", "/noinput"}}
    \cup {PutScope}

\* Chunks of request bodies: a whole Classroom, its two halves, its truncation.
ReqChunks == { <<>>, <<"#1", "Math", "#2", "2">>, <<"#2", "4">>, <<"#1", "Math", "#2">> }

StartMessages == {
    RespStart(200, << <<"content-length", "9">>, <<"content-type", JsonType>> >>),
    RespStart(201, << <<"x-request-id", "a">>, <<"Content-Type", JsonType>>,
                      <<"cache-control", "no-cache">> >>) }

\* Chunks of response bodies: whole objects, the two halves of one, an object of
\* another type, and the empty chunk that ends a streamed response.
RespChunks == {
    <<"{", "numstudents:", "2", ",", "grade:", "3", "}">>,
    <<"{", "}">>,
    <<"{", "numstudents:", "2">>,
    <<",", "grade:", "3", "}">>,
    <<"{", "surname:", "1", "}">>,
    <<>> }

Inputs == [scopes |-> Scopes, reqChunks |-> ReqChunks,
           starts |-> StartMessages, respChunks |-> RespChunks,
           maxChunks |-> MaxChunks, maxRespChunks |-> MaxRespChunks, maxPulls |-> MaxPulls]

\* The reduced alphabet of the concurrent specification: one chunk each way and
\* one pull per request.
ConcInputs == [scopes |-> {HttpScope(p, H_bin) : p \in {"/classroom", "/nowhere", "/noreturn"}},
               reqChunks |-> {<<>>, <<"#1">>},
               starts |-> StartMessages,
               respChunks |-> {<<"{", "}">>, <<>>},
               maxChunks |-> 1, maxRespChunks |-> 1, maxPulls |-> 1]

\* ------------------------------------------------------------------- state
VARIABLES
    start_message,  \* self.start_message: one attribute of the one middleware instance
    pc,             \* per request: idle, drain, drained, app, done
    orig,           \* ghost: the scope as it arrived
    scope,          \* the scope dict (line 116 rewrites its headers)
    is_protobuf,    \* local of __call__
    body,           \* local of __call__: the drained request bytes
    json_body,      \* local of __call__: the synthesized JSON request body
    return_object,  \* local of __call__: the declared return type
    wire,           \* the transport: request messages delivered so far
    rx,             \* ghost: the messages the original receive returned
    got,            \* ghost: the messages new_receive returned to downstream
    invoked,        \* ghost: self.app was called (line 121)
    app,            \* the downstream app's progress through its response
    passed,         \* ghost: the events downstream passed to new_send
    sent,           \* the events forwarded to the original send
    outcome,        \* how __call__ ended
    ops             \* ghost: route lookups and codec operations run, and the
                    \* byte strings given to FromString

vars == <<start_message, pc, orig, scope, is_protobuf, body, json_body, return_object,
          wire, rx, got, invoked, app, passed, sent, outcome, ops>>

NoStart == [type |-> "unset", status |-> 0, headers |-> <<>>]
NoScope == [type |-> "", method |-> "", path |-> "", headers |-> <<>>]
Pending == [kind |-> "pending", exc |-> "", status |-> 0]
Returned == [kind |-> "returned", exc |-> "", status |-> 0]
Raised(exc, status) == [kind |-> "raised", exc |-> exc, status |-> status]

Init ==
    /\ start_message = NoStart
    /\ pc = [r \in Reqs |-> "idle"]
    /\ orig = [r \in Reqs |-> NoScope]
    /\ scope = [r \in Reqs |-> NoScope]
    /\ is_protobuf = [r \in Reqs |-> FALSE]
    /\ body = [r \in Reqs |-> <<>>]
    /\ json_body = [r \in Reqs |-> <<>>]
    /\ return_object = [r \in Reqs |-> None]
    /\ wire = [r \in Reqs |-> [n |-> 0, ended |-> FALSE, closed |-> FALSE]]
    /\ rx = [r \in Reqs |-> <<>>]
    /\ got = [r \in Reqs |-> <<>>]
    /\ invoked = [r \in Reqs |-> FALSE]
    /\ app = [r \in Reqs |-> [phase |-> "new", n |-> 0]]
    /\ passed = [r \in Reqs |-> <<>>]
    /\ sent = [r \in Reqs |-> <<>>]
    /\ outcome = [r \in Reqs |-> Pending]
    /\ ops = [r \in Reqs |-> [lookups |-> 0, codec |-> 0, decoded |-> <<>>]]

\* ----------------------------------------------------- pieces of __call__
\* IsProtobuf without the comparison with the binary media type.
IsProtobuf_anyContentType(s) ==
    /\ s.type = "http"
    /\ s.headers # <<>>
    /\ LET content_type == HeaderGet(s.headers, "content-type")
       IN  content_type # None /\ content_type # ""

\* Lines 79-82: the request is on the binary path.
IsProtobuf(s) ==
    /\ s.type = "http"
    /\ s.headers # <<>>
    /\ LET content_type == HeaderGet(s.headers, "content-type")
       IN  content_type # None /\ content_type # "" /\ content_type = BinaryType

\* RewriteRequestHeaders that also sets content-length to the JSON body's length.
RewriteRequestHeaders_fixLength(headers) ==
    [i \in DOMAIN headers |->
        IF headers[i][1] = "content-type" THEN <<headers[i][1], JsonType>>
        ELSE IF headers[i][1] = "content-length" THEN <<headers[i][1], "0">>
        ELSE headers[i]]

\* Lines 116-118: the headers downstream sees on the binary path.
RewriteRequestHeaders(headers) ==
    [i \in DOMAIN headers |->
        IF headers[i][1] # "content-type" THEN headers[i] ELSE <<headers[i][1], JsonType>>]

\* KeptHeader that compares the names as they are, without k.lower().
KeptHeader_exactCase(h) == h[1] \notin {"content-type", "content-length"}

\* Lines 55-65: the headers of the forwarded header-announcement.
KeptHeader(h) == Lower(h[1]) \notin {"content-type", "content-length"}

\* RewrittenHeaders that drops content-type only and keeps a captured content-length.
RewrittenHeaders_keepLength(start, proto_body) ==
    SelectSeq(start.headers, LAMBDA h : Lower(h[1]) # "content-type")
    \o << <<"content-length", Str(Len(proto_body))>>, <<"content-type", BinaryType>> >>

RewrittenHeaders(start, proto_body) ==
    SelectSeq(start.headers, KeptHeader)
    \o << <<"content-length", Str(Len(proto_body))>>, <<"content-type", BinaryType>> >>

\* new_send(message) of request r, lines 42-77: the exception it raises (none: ""),
\* the value it leaves in self.start_message, the events it forwards to the
\* original send and the codec operations it starts.  Its json_body is a local
\* of new_send: the assignment at line 49 does not reach __call__'s json_body.
new_send(r, message) ==
    LET quiet == [exc |-> "", start_message |-> start_message, sends |-> <<>>, codec |-> 0]
    IN
    IF is_protobuf[r] /\ message.type = "http.response.start"
    THEN [quiet EXCEPT !.start_message = message]
    ELSE IF is_protobuf[r] /\ message.type = "http.response.body"
    THEN LET response_data == JsonLoads(message.body)
             proto_response == Construct(return_object[r], response_data.dict)
             proto_body == SerializeToString(proto_response.msg)
         IN  IF ~response_data.ok
             THEN [quiet EXCEPT !.exc = "JSONDecodeError", !.codec = 1]
             ELSE IF ~proto_response.ok
             THEN [quiet EXCEPT !.exc = "TypeError", !.codec = 2]
             ELSE IF start_message = NoStart
             THEN [quiet EXCEPT !.exc = "AttributeError", !.codec = 3]
             ELSE [quiet EXCEPT
                     !.codec = 3,
                     !.sends = << [start_message EXCEPT
                                     !.headers = RewrittenHeaders(start_message, proto_body)],
                                  RespBody(proto_body, FALSE) >>]
    ELSE [quiet EXCEPT !.sends = <<message>>]

\* The messages the original receive may return next: a body chunk while the
\* body has not ended, or the client's disconnect.
Receivable(r, In) ==
    {Disconnect}
    \cup (IF ~wire[r].closed /\ ~wire[r].ended /\ wire[r].n < In.maxChunks
          THEN {ReqMsg(c, more) : c \in In.reqChunks, more \in BOOLEAN}
          ELSE {})

WireAfter(w, m) ==
    IF m.type = "http.request"
    THEN [w EXCEPT !.n = @ + 1, !.ended = ~m.more_body]
    ELSE [w EXCEPT !.closed = TRUE]

\* new_receive that hands downstream the drained binary body.
new_receive_rawBody(r, m) ==
    IF ~is_protobuf[r]
    THEN [message |-> m, pulled |-> TRUE]
    ELSE [message |-> ReqMsg(body[r], FALSE), pulled |-> FALSE]

\* new_receive() of request r, lines 33-40, given the message m the original
\* receive would return: the message downstream gets and whether the original
\* receive was called.
new_receive(r, m) ==
    IF ~is_protobuf[r]
    THEN [message |-> m, pulled |-> TRUE]
    ELSE [message |-> ReqMsg(json_body[r], FALSE), pulled |-> FALSE]

Finish(r, o) ==
    /\ pc' = [pc EXCEPT ![r] = "done"]
    /\ outcome' = [outcome EXCEPT ![r] = o]

\* ------------------------------------------------------------------ actions
\* Lines 28-83 (and 121 off the binary path): a request arrives.
Start(r, In) ==
    /\ pc[r] = "idle"
    /\ \E s \in In.scopes :
        /\ orig' = [orig EXCEPT ![r] = s]
        /\ scope' = [scope EXCEPT ![r] = s]
        /\ is_protobuf' = [is_protobuf EXCEPT ![r] = IsProtobuf(s)]
        /\ pc' = [pc EXCEPT ![r] = IF IsProtobuf(s) THEN "drain" ELSE "app"]
        /\ invoked' = [invoked EXCEPT ![r] = ~IsProtobuf(s)]
    /\ UNCHANGED <<start_message, body, json_body, return_object, wire, rx, got,
                   app, passed, sent, outcome, ops>>

\* DrainBody that puts the new chunk in front of the bytes drained so far.
DrainBody_prepend(b, message) == Get(message, "body", <<>>) \o b

\* Line 89: body += message.get("body", b"")
DrainBody(b, message) == b \o Get(message, "body", <<>>)

\* Lines 87-90: one turn of the drain loop.
Drain(r, In) ==
    /\ pc[r] = "drain"
    /\ \E message \in Receivable(r, In) :
        /\ rx' = [rx EXCEPT ![r] = Append(@, message)]
        /\ wire' = [wire EXCEPT ![r] = WireAfter(@, message)]
        /\ body' = [body EXCEPT ![r] = DrainBody(@, message)]
        /\ pc' = [pc EXCEPT ![r] = IF Get(message, "more_body", FALSE) THEN "drain" ELSE "drained"]
    /\ UNCHANGED <<start_message, orig, scope, is_protobuf, json_body, return_object,
                   got, invoked, app, passed, sent, outcome, ops>>

\* Lines 92-97: no APIRoute has the request's path.
RouteNotFound(r) ==
    /\ pc[r] = "drained"
    /\ FindRoute(scope[r].path) = 0
    /\ Finish(r, Raised("HTTPException", 404))
    /\ ops' = [ops EXCEPT ![r].lookups = @ + 1]
    /\ UNCHANGED <<start_message, orig, scope, is_protobuf, body, json_body, return_object,
                   wire, rx, got, invoked, app, passed, sent>>

\* Lines 98-108: the handler declares no return type or no message parameter.
UnsupportedSignature(r) ==
    /\ pc[r] = "drained"
    /\ FindRoute(scope[r].path) # 0
    /\ LET route == Routes[FindRoute(scope[r].path)]
       IN  /\ route.return = None \/ InputClass(route.params) = None
           /\ return_object' = [return_object EXCEPT ![r] = route.return]
    /\ Finish(r, Raised("HTTPException", 400))
    /\ ops' = [ops EXCEPT ![r].lookups = @ + 1]
    /\ UNCHANGED <<start_message, orig, scope, is_protobuf, body, json_body,
                   wire, rx, got, invoked, app, passed, sent>>

\* Line 111: FromString raises; nothing in __call__ catches it.
RequestDecodeError(r) ==
    /\ pc[r] = "drained"
    /\ FindRoute(scope[r].path) # 0
    /\ LET route == Routes[FindRoute(scope[r].path)]
       IN  /\ route.return # None /\ InputClass(route.params) # None
           /\ ~FromString(InputClass(route.params), body[r]).ok
           /\ return_object' = [return_object EXCEPT ![r] = route.return]
    /\ Finish(r, Raised("CodecError", 0))
    /\ ops' = [ops EXCEPT ![r].lookups = @ + 1, ![r].codec = @ + 1,
                         ![r].decoded = Append(@, body[r])]
    /\ UNCHANGED <<start_message, orig, scope, is_protobuf, body, json_body,
                   wire, rx, got, invoked, app, passed, sent>>

\* Lines 111-121: the body decodes; the JSON body and the rewritten headers are
\* published and downstream is invoked.
Publish(r) ==
    /\ pc[r] = "drained"
    /\ FindRoute(scope[r].path) # 0
    /\ LET route == Routes[FindRoute(scope[r].path)]
           proto_object == FromString(InputClass(route.params), body[r])
       IN  /\ route.return # None /\ InputClass(route.params) # None
           /\ proto_object.ok
           /\ return_object' = [return_object EXCEPT ![r] = route.return]
           /\ json_body' = [json_body EXCEPT ![r] = JsonDumpsClassroom(proto_object.msg)]
    /\ scope' = [scope EXCEPT ![r].headers = RewriteRequestHeaders(@)]
    /\ invoked' = [invoked EXCEPT ![r] = TRUE]
    /\ pc' = [pc EXCEPT ![r] = "app"]
    /\ ops' = [ops EXCEPT ![r].lookups = @ + 1, ![r].codec = @ + 2,
                         ![r].decoded = Append(@, body[r])]
    /\ UNCHANGED <<start_message, orig, is_protobuf, body, wire, rx, got,
                   app, passed, sent, outcome>>

\* Downstream calls new_receive.
AppReceive(r, In) ==
    /\ pc[r] = "app"
    /\ Len(got[r]) < In.maxPulls
    /\ \E m \in Receivable(r, In) :
        LET res == new_receive(r, m)
        IN  /\ got' = [got EXCEPT ![r] = Append(@, res.message)]
            /\ rx' = [rx EXCEPT ![r] = IF res.pulled THEN Append(@, m) ELSE @]
            /\ wire' = [wire EXCEPT ![r] = IF res.pulled THEN WireAfter(@, m) ELSE @]
    /\ UNCHANGED <<start_message, pc, orig, scope, is_protobuf, body, json_body,
                   return_object, invoked, app, passed, sent, outcome, ops>>

\* Downstream passes `message` to new_send; an exception new_send raises ends
\* the request.
AppSend(r, message, phase) ==
    LET res == new_send(r, message)
    IN  /\ passed' = [passed EXCEPT ![r] = Append(@, message)]
        /\ start_message' = res.start_message
        /\ sent' = [sent EXCEPT ![r] = @ \o res.sends]
        /\ ops' = [ops EXCEPT ![r].codec = @ + res.codec]
        /\ IF res.exc # ""
           THEN Finish(r, Raised(res.exc, 0)) /\ UNCHANGED app
           ELSE /\ app' = [app EXCEPT ![r] = [phase |-> phase,
                                              n |-> IF message.type = "http.response.body"
                                                    THEN @.n + 1 ELSE @.n]]
                /\ UNCHANGED <<pc, outcome>>
        /\ UNCHANGED <<orig, scope, is_protobuf, body, json_body, return_object,
                       wire, rx, got, invoked>>

\* Downstream announces its response.
AppSendStart(r, In) ==
    /\ pc[r] = "app"
    /\ app[r].phase = "new"
    /\ \E message \in In.starts : AppSend(r, message, "started")

\* Downstream emits a body chunk; the last one allowed ends the body.
AppSendBody(r, In) ==
    /\ pc[r] = "app"
    /\ app[r].phase = "started"
    /\ app[r].n < In.maxRespChunks
    /\ \E c \in In.respChunks, more \in BOOLEAN :
        /\ app[r].n = In.maxRespChunks - 1 => ~more
        /\ AppSend(r, RespBody(c, more), IF more THEN "started" ELSE "finished")

\* Downstream returns after its last body chunk: line 121 completes.
AppReturn(r) ==
    /\ pc[r] = "app"
    /\ app[r].phase = "finished"
    /\ Finish(r, Returned)
    /\ UNCHANGED <<start_message, orig, scope, is_protobuf, body, json_body, return_object,
                   wire, rx, got, invoked, app, passed, sent, ops>>

Step(r, In) ==
    \/ Start(r, In)
    \/ Drain(r, In)
    \/ RouteNotFound(r)
    \/ UnsupportedSignature(r)
    \/ RequestDecodeError(r)
    \/ Publish(r)
    \/ AppReceive(r, In)
    \/ AppSendStart(r, In)
    \/ AppSendBody(r, In)
    \/ AppReturn(r)

\* One request, the full input alphabet.
Next == Step(1, Inputs)
Spec == Init /\ [][Next]_vars

\* One request whose coroutine, transport and downstream are always scheduled
\* again: the event loop runs every ready coroutine.
SpecLive == Init /\ [][Next]_vars /\ WF_vars(Next)

\* All requests concurrently, the reduced alphabet.
NextConc == \E r \in Reqs : Step(r, ConcInputs)
SpecConc == Init /\ [][NextConc]_vars

\* ------------------------------------------- the /classroom handler downstream
RECURSIVE Sum(_)
Sum(ss) == IF ss = <<>> THEN 0 ELSE Head(ss) + Sum(Tail(ss))

\* summarize_classroom that returns the sum of the grades for the mean.
summarize_classroom_sum(classroom) ==
    [numstudents |-> Len(classroom.students), grade |-> Sum(classroom.students)]

\* Lines 128-134, for a classroom with students; the inputs below keep the mean
\* a whole number, so that the integer quotient is the mean.
summarize_classroom(classroom) ==
    [numstudents |-> Len(classroom.students),
     grade |-> Sum(classroom.students) \div Len(classroom.students)]

\* The JSON that FastAPI makes of the returned ClassStats.
JsonDumpsStats(m) ==
    <<"{", "numstudents:", Str(m.numstudents), ",", "grade:", Str(m.grade), "}">>

\* Request bodies of the end-to-end run: a profile with three students (the
\* client's scenario), one more student, nothing, and a truncated message.
E2EChunks == { <<"#1", "Math", "#2", "2", "#2", "4", "#2", "6">>, <<"#2", "4">>,
               <<>>, <<"#1", "Math", "#2">> }

E2EInputs == [scopes |-> {HttpScope("/classroom", h) : h \in {H_bin, H_bin2}},
              reqChunks |-> E2EChunks,
              starts |-> {}, respChunks |-> {},
              maxChunks |-> MaxChunks, maxRespChunks |-> 1, maxPulls |-> MaxPulls]

\* FastAPI has read the request body and calls the handler (lines 128-134); a
\* classroom without students raises ZeroDivisionError, which nothing below the
\* middleware catches; otherwise the response is announced.
Summarize(r) ==
    /\ pc[r] = "app"
    /\ app[r].phase = "new"
    /\ got[r] # <<>>
    /\ LET classroom == JsonLoadsClassroom(got[r][1].body)
           content == JsonDumpsStats(summarize_classroom(classroom))
       IN  IF classroom.students = <<>>
           THEN /\ Finish(r, Raised("ZeroDivisionError", 0))
                /\ UNCHANGED <<start_message, orig, scope, is_protobuf, body, json_body,
                               return_object, wire, rx, got, invoked, app, passed, sent, ops>>
           ELSE AppSend(r, RespStart(200, << <<"content-length", Str(Len(content))>>,
                                             <<"content-type", JsonType>> >>), "started")

\* FastAPI sends the JSON of the handler's result as the only body chunk.
SummarizeBody(r) ==
    /\ pc[r] = "app"
    /\ app[r].phase = "started"
    /\ LET classroom == JsonLoadsClassroom(got[r][1].body)
       IN  AppSend(r, RespBody(JsonDumpsStats(summarize_classroom(classroom)), FALSE),
                   "finished")

\* One binary request to /classroom whose downstream is the handler.
NextE2E ==
    \/ Start(1, E2EInputs)
    \/ Drain(1, E2EInputs)
    \/ RequestDecodeError(1)
    \/ Publish(1)
    \/ AppReceive(1, E2EInputs)
    \/ Summarize(1)
    \/ SummarizeBody(1)
    \/ AppReturn(1)
SpecE2E == Init /\ [][NextE2E]_vars

\* ------------------------------------------------------------------ claims
IsStart(e) == e.type = "http.response.start"
IsBody(e) == e.type = "http.response.body"

RECURSIVE ConcatBodies(_)
ConcatBodies(events) ==
    IF events = <<>> THEN <<>>
    ELSE Get(Head(events), "body", <<>>) \o ConcatBodies(Tail(events))

\* The body bytes decode into the request's output type.
Decodable(r, b) == JsonLoads(b).ok /\ Construct(return_object[r], JsonLoads(b).dict).ok

\* binaryEncode(jsonDecode(b)) for the request's output type.
Translated(r, b) == SerializeToString(Construct(return_object[r], JsonLoads(b).dict).msg)

\* Downstream has passed its last body chunk (more_body = false).
FinalPassed(r) ==
    LET bodies == SelectSeq(passed[r], IsBody)
    IN  bodies # <<>> /\ ~bodies[Len(bodies)].more_body

ClientError(o) == o.kind = "raised" /\ o.exc = "HTTPException" /\ o.status \in 400..499
ServerError(o) == o.kind = "raised" /\ (o.exc # "HTTPException" \/ o.status \in 500..599)

\* The drain of request r ended on a body chunk with more_body = false.
WholeRequest(r) ==
    rx[r] # <<>> /\ rx[r][Len(rx[r])].type = "http.request" /\ ~rx[r][Len(rx[r])].more_body

\* C1: for a binary-path request whose body arrived in full, the events forwarded
\* to the original send are at most one header-announcement followed by at most
\* one body chunk, and exactly those two once downstream has returned.
C1_HeaderOnceBeforeSingleBody ==
    \A r \in Reqs : is_protobuf[r] /\ WholeRequest(r) =>
        /\ Len(sent[r]) <= 2
        /\ Len(sent[r]) >= 1 => IsStart(sent[r][1])
        /\ Len(sent[r]) >= 2 => IsBody(sent[r][2])
        /\ outcome[r] = Returned => Len(sent[r]) = 2

\* C2: for a binary-path request whose body arrived in full, nothing is forwarded
\* before downstream has passed the chunk with more_body = false, and then the
\* one forwarded body chunk carries the translation of the concatenation of all
\* chunks.
C2_BufferUntilLastChunk ==
    \A r \in Reqs : is_protobuf[r] /\ WholeRequest(r) =>
        LET whole == ConcatBodies(SelectSeq(passed[r], IsBody))
        IN  /\ ~FinalPassed(r) => sent[r] = <<>>
            /\ FinalPassed(r) /\ Decodable(r, whole) =>
                   SelectSeq(sent[r], IsBody) = <<RespBody(Translated(r, whole), FALSE)>>

\* C3: with no connection closed, every header-announcement a binary-path
\* request forwards has the status and the headers other than content-type and
\* content-length of the header-announcement its own downstream passed.
NoDisconnect == \A q \in Reqs : \A i \in DOMAIN rx[q] : rx[q][i].type # "http.disconnect"

C3_RequestIsolation ==
    \A r \in Reqs : NoDisconnect /\ is_protobuf[r] =>
        \A i \in DOMAIN sent[r] : IsStart(sent[r][i]) =>
            LET own == SelectSeq(passed[r], IsStart)[1]
            IN  /\ sent[r][i].status = own.status
                /\ SelectSeq(sent[r][i].headers, KeptHeader)
                       = SelectSeq(own.headers, KeptHeader)

\* C4: a request with no content-type entry of the binary media type reaches
\* downstream with its scope unchanged, every pull is one call of the original
\* receive and returns its message, every event downstream sends is forwarded
\* unchanged and in order, and no route lookup or codec operation runs.
NotBinaryMarked(s) ==
    \A i \in DOMAIN s.headers :
        ~(s.headers[i][1] = "content-type" /\ s.headers[i][2] = BinaryType)

C4_PassThroughPurity ==
    \A r \in Reqs : pc[r] # "idle" /\ NotBinaryMarked(orig[r]) =>
        /\ invoked[r]
        /\ scope[r] = orig[r]
        /\ got[r] = rx[r]
        /\ sent[r] = passed[r]
        /\ ops[r] = [lookups |-> 0, codec |-> 0, decoded |-> <<>>]

C4_Witness ==
    \E r \in Reqs :
        /\ NotBinaryMarked(orig[r]) /\ orig[r].headers # <<>>
        /\ pc[r] = "done"
        /\ Len(got[r]) = 2 /\ got[r][1].type = "http.request" /\ got[r][1].more_body
        /\ Len(sent[r]) = 3

\* C5: every header-announcement forwarded on the binary path has exactly one
\* content-length entry, and its value is the decimal length of the body chunk
\* forwarded right after it.
LengthEntries(headers) == {i \in DOMAIN headers : Lower(headers[i][1]) = "content-length"}

C5_ContentLength ==
    \A r \in Reqs : is_protobuf[r] =>
        \A i \in DOMAIN sent[r] : IsStart(sent[r][i]) =>
            /\ i + 1 \in DOMAIN sent[r] /\ IsBody(sent[r][i + 1])
            /\ Cardinality(LengthEntries(sent[r][i].headers)) = 1
            /\ \A k \in LengthEntries(sent[r][i].headers) :
                   sent[r][i].headers[k] = <<"content-length", Str(Len(sent[r][i + 1].body))>>

\* An empty translated body, announced with length 0 although the captured
\* header-announcement carried a content-length of its own.
C5_Witness ==
    \E r \in Reqs :
        /\ is_protobuf[r] /\ Len(sent[r]) = 2
        /\ LengthEntries(passed[r][1].headers) # {}
        /\ sent[r][2].body = <<>>
        /\ <<"content-length", "0">> \in {sent[r][1].headers[k] : k \in DOMAIN sent[r][1].headers}

\* C6: a binary-path request whose drained body does not decode as the route's
\* input type ends in a client error, with downstream never invoked.
Malformed(r) ==
    /\ is_protobuf[r] /\ pc[r] = "done"
    /\ FindRoute(orig[r].path) # 0
    /\ LET route == Routes[FindRoute(orig[r].path)]
       IN  /\ route.return # None /\ InputClass(route.params) # None
           /\ ~FromString(InputClass(route.params), body[r]).ok

C6_MalformedIsClientError ==
    \A r \in Reqs : Malformed(r) => ClientError(outcome[r]) /\ ~invoked[r]

\* C7: when the drain of a binary-path request received the connection's close
\* instead of the end of the body, no binary decode runs and downstream is not
\* handed a synthesized body.
ClosedMidDrain(r) ==
    /\ is_protobuf[r] /\ pc[r] \in {"drained", "app", "done"}
    /\ rx[r] # <<>> /\ rx[r][Len(rx[r])].type = "http.disconnect"

C7_CancelMidDrain ==
    \A r \in Reqs : ClosedMidDrain(r) =>
        /\ ops[r].codec = 0
        /\ ~invoked[r]
        /\ got[r] = <<>>

\* C8: for a binary-path request whose body arrived in full, the first pull
\* returns the whole JSON body with more_body = false, and no later pull returns
\* body bytes again.
C8_SingleShotBody ==
    \A r \in Reqs : is_protobuf[r] /\ WholeRequest(r) =>
        \A i \in DOMAIN got[r] :
            IF i = 1 THEN got[r][i] = ReqMsg(json_body[r], FALSE)
            ELSE Get(got[r][i], "body", <<>>) = <<>>

\* C9: when the body downstream emitted for a binary-path request (its body
\* arrived in full) does not decode into the output type, nothing is forwarded to
\* the original send and the request ends in a server error.
C9_NoForwardOnDecodeFailure ==
    \A r \in Reqs :
        (is_protobuf[r] /\ WholeRequest(r) /\ FinalPassed(r)
            /\ ~Decodable(r, ConcatBodies(SelectSeq(passed[r], IsBody)))) =>
        /\ sent[r] = <<>>
        /\ ServerError(outcome[r])

\* C10: a binary-path request whose path has no APIRoute ends in
\* HTTPException(404), one whose route lacks a return type or a message-typed
\* parameter in HTTPException(400); downstream is not invoked and nothing of the
\* request shows: nothing forwarded, nothing captured, the scope as it arrived.
NoRoute(path) == \A i \in DOMAIN Routes : ~(Routes[i].api /\ Routes[i].path = path)

BadSignature(path) ==
    \E i \in DOMAIN Routes :
        /\ Routes[i].api /\ Routes[i].path = path
        /\ \A j \in 1..(i - 1) : ~(Routes[j].api /\ Routes[j].path = path)
        /\ \/ Routes[i].return = None
           \/ \A k \in DOMAIN Routes[i].params : ~HasFromString(Routes[i].params[k])

C10_RoutingErrors ==
    \A r \in Reqs :
        (is_protobuf[r] /\ pc[r] \in {"app", "done"}
            /\ (NoRoute(orig[r].path) \/ BadSignature(orig[r].path))) =>
        /\ outcome[r] = Raised("HTTPException", IF NoRoute(orig[r].path) THEN 404 ELSE 400)
        /\ ~invoked[r]
        /\ sent[r] = <<>> /\ passed[r] = <<>> /\ got[r] = <<>>
        /\ scope[r] = orig[r] /\ json_body[r] = <<>>
        /\ ops[r].codec = 0
        /\ start_message = NoStart

C10_Witness ==
    \E r \in Reqs :
        /\ is_protobuf[r] /\ pc[r] = "done"
        /\ orig[r].path = "/nowhere"
        /\ Len(rx[r]) = 2 /\ body[r] # <<>>
        /\ outcome[r] = Raised("HTTPException", 404)

\* C11: in one request's run, every header-announcement forwarded on the binary
\* path has the status of the one downstream passed, and its headers are the
\* passed ones without the content-type and content-length entries (names
\* compared case-insensitively), in their order, followed by one content-length
\* entry and one content-type entry of the binary media type.
NotTypeOrLength(h) ==
    h[1] \notin {"content-type", "Content-Type", "content-length", "Content-Length"}

C11_HeaderRewrite ==
    \A r \in Reqs : is_protobuf[r] =>
        \A i \in DOMAIN sent[r] : IsStart(sent[r][i]) =>
            LET captured == SelectSeq(passed[r], IsStart)[1]
                others == SelectSeq(captured.headers, NotTypeOrLength)
                out == sent[r][i].headers
            IN  /\ sent[r][i].status = captured.status
                /\ Len(out) = Len(others) + 2
                /\ SubSeq(out, 1, Len(others)) = others
                /\ out[Len(out) - 1][1] = "content-length"
                /\ out[Len(out)] = <<"content-type", BinaryType>>

\* The captured list had a Content-Type entry between two entries that are kept.
C11_Witness ==
    \E r \in Reqs :
        /\ is_protobuf[r] /\ Len(sent[r]) = 2
        /\ passed[r][1].status = 201
        /\ sent[r][1].headers[1] = <<"x-request-id", "a">>
        /\ sent[r][1].headers[2] = <<"cache-control", "no-cache">>

\* C12: for every Classroom m, when the chunks of a whole binary request
\* concatenate to the binary encoding of m, every body that downstream receives
\* JSON-decodes to m.
ClassroomMessages ==
    [profile : {""} \cup Profiles,
     students : UNION {[1..n -> {2, 4}] : n \in 0..MaxChunks}]

C12_RequestRoundTrip ==
    \A r \in Reqs : is_protobuf[r] /\ WholeRequest(r) =>
        \A m \in ClassroomMessages : ConcatBodies(rx[r]) = SerializeClassroom(m) =>
            \A i \in DOMAIN got[r] :
                /\ got[r][i].type = "http.request"
                /\ JsonLoadsClassroom(got[r][i].body) = m

\* A Classroom with a profile and two students arrived in two chunks.
C12_Witness ==
    \E r \in Reqs :
        /\ is_protobuf[r] /\ WholeRequest(r) /\ Len(rx[r]) = 2 /\ got[r] # <<>>
        /\ ConcatBodies(rx[r]) = SerializeClassroom([profile |-> "Math", students |-> <<2, 4>>])
        /\ JsonLoadsClassroom(got[r][1].body) = [profile |-> "Math", students |-> <<2, 4>>]

\* C13: a request that has started is on the binary path exactly when one of its
\* header entries is named content-type (in any letter case) and has the binary
\* media type as its value; classifying leaves the request's scope as it arrived.
CarriesBinaryType(headers) ==
    \E i \in DOMAIN headers :
        Lower(headers[i][1]) = "content-type" /\ headers[i][2] = BinaryType

C13_ContentNegotiation ==
    \A r \in Reqs : pc[r] # "idle" =>
        /\ is_protobuf[r] <=> CarriesBinaryType(orig[r].headers)
        /\ pc[r] = "drain" => scope[r] = orig[r]

\* C14: when the whole binary request to /classroom is the encoding of a
\* Classroom with k >= 1 students and the handler's response has been forwarded,
\* the forwarded events are one header-announcement whose content-type is the
\* binary media type and one body chunk: the encoding of ClassStats with
\* numstudents = k and grade = the mean of the k grades.
C14_EndToEnd ==
    \A r \in Reqs : is_protobuf[r] /\ WholeRequest(r) /\ outcome[r] = Returned =>
        LET whole == ConcatBodies(rx[r])
            decoded == ParseClassroom(whole, DefaultClassroom)
            k == Len(decoded.msg.students)
        IN  decoded.ok /\ SerializeClassroom(decoded.msg) = whole /\ k >= 1 =>
                /\ Len(sent[r]) = 2
                /\ IsStart(sent[r][1]) /\ IsBody(sent[r][2])
                /\ HeaderGet(sent[r][1].headers, "content-type") = BinaryType
                /\ \E g \in 0..9 :
                    /\ g * k = Sum(decoded.msg.students)
                    /\ sent[r][2].body = <<"#1", Str(k), "#2", Str(g)>>
                /\ ~sent[r][2].more_body

\* The client's scenario: three students, whose mean grade is 4.
C14_Witness ==
    \E r \in Reqs :
        /\ is_protobuf[r] /\ WholeRequest(r) /\ outcome[r] = Returned
        /\ ConcatBodies(rx[r]) = <<"#1", "Math", "#2", "2", "#2", "4", "#2", "6">>
        /\ sent[r][2].body = <<"#1", "3", "#2", "4">>

\* C15: on the binary path, while the drain runs every message pulled so far is
\* a chunk with more_body set and nothing has been decoded; once it has ended the
\* pulled messages are those chunks followed by one message whose more_body is
\* false or absent, and no further one; binary decode runs at most once, on the
\* concatenation of the pulled bodies in arrival order, and has run once
\* downstream is invoked or the decode error is raised.
MoreToCome(m) == Get(m, "more_body", FALSE)

C15_Drain ==
    \A r \in Reqs : is_protobuf[r] =>
        /\ \A i \in 1..(Len(rx[r]) - 1) : MoreToCome(rx[r][i])
        /\ pc[r] = "drain" =>
            /\ \A i \in DOMAIN rx[r] : MoreToCome(rx[r][i])
            /\ ops[r].decoded = <<>>
        /\ pc[r] # "drain" =>
            /\ rx[r] # <<>> /\ ~MoreToCome(rx[r][Len(rx[r])])
            /\ ops[r].decoded \in {<<>>, <<ConcatBodies(rx[r])>>}
        /\ invoked[r] \/ outcome[r] = Raised("CodecError", 0) =>
            ops[r].decoded = <<ConcatBodies(rx[r])>>

\* Two different chunks were drained and decoded, and downstream has pulled.
C15_Witness ==
    \E r \in Reqs :
        /\ is_protobuf[r] /\ invoked[r] /\ got[r] # <<>>
        /\ Len(rx[r]) = 2 /\ WholeRequest(r) /\ rx[r][1].body # rx[r][2].body
        /\ rx[r][1].body # <<>> /\ rx[r][2].body # <<>>
        /\ ops[r].decoded = <<ConcatBodies(rx[r])>>

\* C16: for a binary-path request that reached downstream, the output type in
\* use is the declared return type of the handler bound to the request's path
\* and method.
BoundRoutes(s) ==
    {i \in DOMAIN Routes :
        Routes[i].api /\ Routes[i].path = s.path /\ Routes[i].method = s.method}

C16_RouteTypesByMethod ==
    \A r \in Reqs : is_protobuf[r] /\ invoked[r] =>
        \E i \in BoundRoutes(orig[r]) : return_object[r] = Routes[i].return

\* C17: with no connection closed, once some request has aborted with an error,
\* every other binary-path request has forwarded exactly the events it forwards
\* when it runs alone: for each body event its downstream passed, the latest
\* header-announcement of its own downstream, rewritten, and the translated body.
RECURSIVE AloneSends(_, _, _)
AloneSends(r, events, start) ==
    IF events = <<>> THEN <<>>
    ELSE IF IsStart(Head(events)) THEN AloneSends(r, Tail(events), Head(events))
    ELSE IF ~Decodable(r, Head(events).body) \/ start = NoStart THEN <<>>
    ELSE LET proto_body == Translated(r, Head(events).body)
         IN  << [start EXCEPT !.headers = RewrittenHeaders(start, proto_body)],
                RespBody(proto_body, FALSE) >>
             \o AloneSends(r, Tail(events), start)

Aborted(q) == outcome[q].kind = "raised"

C17_ErrorIsolation ==
    \A r \in Reqs : NoDisconnect /\ is_protobuf[r] /\ (\E q \in Reqs \ {r} : Aborted(q)) =>
        sent[r] = AloneSends(r, passed[r], NoStart)

\* C18: under fair scheduling, a binary-path request whose body arrived in full
\* and decoded, so that downstream was invoked, eventually has its response
\* forwarded (the rewritten header-announcement, then the final binary body
\* chunk, and __call__ returned), unless the body chunks downstream passed can
\* not be the beginning of a response that JSON-decodes to the output type.
ResponseForwarded(r) ==
    /\ outcome[r] = Returned
    /\ Len(sent[r]) >= 2
    /\ IsStart(sent[r][Len(sent[r]) - 1])
    /\ IsBody(sent[r][Len(sent[r])]) /\ ~sent[r][Len(sent[r])].more_body

\* What downstream passed so far is, or can be continued by one more chunk
\* into, a body that decodes.
Completable(r) ==
    LET bodies == SelectSeq(passed[r], IsBody)
        whole == ConcatBodies(bodies)
    IN  IF FinalPassed(r) THEN Decodable(r, whole)
        ELSE \E c \in RespChunks : Decodable(r, whole \o c)

C18_ResponseCompletion ==
    \A r \in Reqs :
        (is_protobuf[r] /\ WholeRequest(r) /\ invoked[r])
            ~> (ResponseForwarded(r) \/ ~Completable(r))

\* C19: once a binary-path request is over (returned, raised or cut off), the
\* middleware instance no longer holds the header-announcement that request's
\* downstream passed.
Over(r) == pc[r] = "done"

C19_BufferRelease ==
    \A r \in Reqs : is_protobuf[r] /\ Over(r) =>
        \A i \in DOMAIN passed[r] : IsStart(passed[r][i]) => start_message # passed[r][i]

\* C20: the scope downstream is invoked with on the binary path differs from the
\* request's only in its header list, which has the same length, every entry
\* named content-type with the value application/json in the same position,
\* and every other entry, content-length included, as it arrived.
C20_RequestHeaderFrame ==
    \A r \in Reqs : is_protobuf[r] /\ invoked[r] =>
        /\ [scope[r] EXCEPT !.headers = orig[r].headers] = orig[r]
        /\ Len(scope[r].headers) = Len(orig[r].headers)
        /\ \A i \in DOMAIN orig[r].headers :
            IF orig[r].headers[i][1] = "content-type"
            THEN scope[r].headers[i] = <<"content-type", JsonType>>
            ELSE scope[r].headers[i] = orig[r].headers[i]

\* The request had a content-length entry and an entry before its content-type.
C20_Witness ==
    \E r \in Reqs :
        /\ is_protobuf[r] /\ invoked[r] /\ got[r] # <<>>
        /\ orig[r].headers = H_bin2
        /\ scope[r].headers[3] = <<"content-length", "6">>
        /\ scope[r].headers[2] = <<"content-type", JsonType>>

====
